---- MODULE Spec2Model ----
(***************************************************************************)
(* Model of the recursive instantiation helpers of                         *)
(* hydra/_internal/utils.py: _locate, _is_target, _is_recursive,           *)
(* _get_target_type, _pop_convert_mode and _get_kwargs.                    *)
(*                                                                         *)
(* Config values are records tagged by the field t:                        *)
(*   [t |-> "none"]                          None                          *)
(*   [t |-> "bool", b |-> BOOLEAN]           a bool                        *)
(*   [t |-> "int", i |-> Int]                an int                        *)
(*   [t |-> "str", s |-> tokens]             a str, as its token sequence  *)
(*                                           (names and "." separators)    *)
(*   [t |-> "type", sym |-> segments]        a class object                *)
(*   [t |-> "callable", sym |-> segments]    a function object             *)
(*   [t |-> "ConvertMode", mode |-> name]    a ConvertMode member          *)
(*   [t |-> "obj", of |-> segments]          an object built by instantiate*)
(*   [t |-> "dict", tag, items]              a mapping: object-type tag and*)
(*                                           ordered [k, v] items          *)
(*   [t |-> "list", items]                   a sequence                    *)
(***************************************************************************)
EXTENDS Integers, Sequences, FiniteSets, TLC

VARIABLES config,     \* the node object the caller holds (mutated in place)
          kwargs,     \* the overlay dict the caller holds
          config0,    \* the caller's node as it was before the first call
          kwargs0,    \* the caller's overlay as it was before the first call
          op,         \* the operation called last ("" before the first call)
          pre,        \* [config, kwargs] right before the last call
          ret,        \* outcome of the last call
          built,      \* instantiate() invocations of the last call, in order
          merged,     \* _get_kwargs: config right after the overlay merge
          ncalls      \* number of calls made so far

vars == <<config, kwargs, config0, kwargs0, op, pre, ret, built, merged, ncalls>>

\* Number of engine calls made on one node and overlay.
MaxCalls == 2

----------------------------------------------------------------------------
(* Values *)

None == [t |-> "none"]
Bool(b) == [t |-> "bool", b |-> b]
IntV(i) == [t |-> "int", i |-> i]
Str(s) == [t |-> "str", s |-> s]
Type(sym) == [t |-> "type", sym |-> sym]
Callable(sym) == [t |-> "callable", sym |-> sym]
ConvertMode(m) == [t |-> "ConvertMode", mode |-> m]
Obj(sym) == [t |-> "obj", of |-> sym]
Dict(tag, items) == [t |-> "dict", tag |-> tag, items |-> items]
List(items) == [t |-> "list", items |-> items]
Item(k, v) == [k |-> k, v |-> v]

\* Object-type tag of an untyped container (OmegaConf.create() / a plain dict).
Untyped == "dict"

(* Outcomes of a call *)
Ok(v) == [st |-> "ok", val |-> v]
Raise(exc, msg) == [st |-> "raise", exc |-> exc, msg |-> msg]

----------------------------------------------------------------------------
(* Mapping primitives (dict / DictConfig): ordered items, unique keys *)

Keys(d) == [i \in 1..Len(d.items) |-> d.items[i].k]

Has(d, k) == \E i \in 1..Len(d.items) : d.items[i].k = k

Get(d, k) == d.items[CHOOSE i \in 1..Len(d.items) : d.items[i].k = k].v

\* d.pop(k): the mapping without key k, order of the rest kept
Pop(d, k) ==
  [d EXCEPT !.items = SelectSeq(d.items, LAMBDA it : it.k # k)]

\* d[k] = v: replaces in place, or appends a new key
Set(d, k, v) ==
  IF Has(d, k)
  THEN [d EXCEPT !.items = [i \in 1..Len(d.items) |->
                              IF d.items[i].k = k THEN Item(k, v) ELSE d.items[i]]]
  ELSE [d EXCEPT !.items = Append(d.items, Item(k, v))]

OmegaConf_is_dict(x) == x.t = "dict"
OmegaConf_is_list(x) == x.t = "list"
OmegaConf_is_config(x) == x.t \in {"dict", "list"}
OmegaConf_is_none(x) == x.t = "none"

----------------------------------------------------------------------------
(* _locate: dotted-path resolution against an import universe *)

\* Modules that import_module can load, by their segments.
Modules == { <<"pkgA">>, <<"pkgA", "sub">> }

\* Kind of the object at each attribute path of the universe.
Universe ==
  (<<"pkgA">> :> "module") @@ (<<"pkgA", "sub">> :> "module") @@
  (<<"pkgA", "Foo">> :> "type") @@ (<<"pkgA", "Bar">> :> "type") @@
  (<<"pkgA", "Other">> :> "type") @@ (<<"pkgA", "fn">> :> "callable") @@
  (<<"pkgA", "CONST">> :> "value") @@ (<<"pkgA", "sub", "Baz">> :> "type")

\* path.split("."): the runs of tokens between separators (empty runs kept)
RECURSIVE split(_)
split(path) ==
  IF path = <<>> THEN << <<>> >>
  ELSE LET rest == split(Tail(path)) IN
       IF Head(path) = "." THEN << <<>> >> \o rest
       ELSE << <<Head(path)>> \o Head(rest) >> \o Tail(rest)

\* [part for part in path.split(".") if part]; a run is one name token
Parts(path) ==
  LET runs == SelectSeq(split(path), LAMBDA r : r # <<>>)
  IN [i \in 1..Len(runs) |-> runs[i][1]]

\* import_module(mod) succeeds
Importable(mod) == mod \in Modules

\* for n in reversed(range(len(parts))): the first n whose parts[:n] imports;
\* -1 when n = 0 is reached and fails (import_module("") raises)
RECURSIVE FindPrefix(_, _)
FindPrefix(parts, n) ==
  IF n = 0 THEN -1
  ELSE IF Importable(SubSeq(parts, 1, n)) THEN n
  ELSE FindPrefix(parts, n - 1)

\* for part in parts[n:]: hasattr / fallback import / getattr
RECURSIVE Traverse(_, _, _)
Traverse(obj, mod, rest) ==
  IF rest = <<>> THEN Ok(obj)
  ELSE LET m == Append(mod, Head(rest))
           o == Append(obj, Head(rest))
       IN IF o \notin DOMAIN Universe /\ ~Importable(m)
          THEN Raise("ImportError", "Encountered error when loading module")
          ELSE IF o \notin DOMAIN Universe
          THEN Raise("AttributeError", "no attribute")
          ELSE Traverse(o, m, Tail(rest))

_locate(path) ==
  LET Kind(r) ==
        IF r.st = "raise" THEN r
        ELSE IF Universe[r.val] = "type" THEN Ok(Type(r.val))
        ELSE IF Universe[r.val] = "callable" THEN Ok(Callable(r.val))
        ELSE Raise("ValueError", "Invalid type found")
      From(parts, n) ==
        IF n = -1 THEN Raise("ImportError", "Error loading module")
        ELSE Kind(Traverse(SubSeq(parts, 1, n), SubSeq(parts, 1, n),
                           SubSeq(parts, n + 1, Len(parts))))
      Search(parts) ==
        IF Len(parts) = 0
        THEN Raise("UnboundLocalError",
                   "local variable 'n' referenced before assignment")
        ELSE From(parts, FindPrefix(parts, Len(parts) - 1))
  IN IF path = <<>> THEN Raise("ImportError", "Empty path")
     ELSE Search(Parts(path))

----------------------------------------------------------------------------
(* _is_target, _is_recursive, _get_target_type, _pop_convert_mode *)

_is_target(x) ==
  IF OmegaConf_is_dict(x) /\ ~OmegaConf_is_none(x) THEN Has(x, "_target_") ELSE FALSE

\* inner helper of _is_recursive: [st, val (None or a bool value), d (after pop)]
_is_rec(d) ==
  IF Has(d, "_recursive_")
  THEN LET rec == Get(d, "_recursive_") IN
       IF rec.t # "bool"
       THEN [st |-> "raise", exc |-> "ValueError",
             msg |-> "_recursive_ flag must be a bool", d |-> Pop(d, "_recursive_")]
       ELSE [st |-> "ok", val |-> rec, d |-> Pop(d, "_recursive_")]
  ELSE [st |-> "ok", val |-> None, d |-> d]

\* _is_recursive with the node's flag consulted before the overlay's
_is_recursive_node_first(cfg, kw) ==
  LET Both(kwrec, configrec) ==
        IF kwrec.st = "raise"
        THEN [out |-> Raise(kwrec.exc, kwrec.msg), config |-> cfg, kwargs |-> kwrec.d]
        ELSE IF configrec.st = "raise"
        THEN [out |-> Raise(configrec.exc, configrec.msg),
              config |-> configrec.d, kwargs |-> kwrec.d]
        ELSE [out |-> IF configrec.val # None THEN Ok(configrec.val.b)
                      ELSE IF kwrec.val # None THEN Ok(kwrec.val.b)
                      ELSE Ok(TRUE),
              config |-> configrec.d, kwargs |-> kwrec.d]
  IN Both(_is_rec(kw), _is_rec(cfg))

\* [out, config, kwargs]: the outcome and both arguments after the call.
\* _is_rec(kwargs) runs first: when it raises, config is left untouched.
_is_recursive(cfg, kw) ==
  LET Both(kwrec, configrec) ==
        IF kwrec.st = "raise"
        THEN [out |-> Raise(kwrec.exc, kwrec.msg), config |-> cfg, kwargs |-> kwrec.d]
        ELSE IF configrec.st = "raise"
        THEN [out |-> Raise(configrec.exc, configrec.msg),
              config |-> configrec.d, kwargs |-> kwrec.d]
        ELSE [out |-> IF kwrec.val # None THEN Ok(kwrec.val.b)
                      ELSE IF configrec.val # None THEN Ok(configrec.val.b)
                      ELSE Ok(TRUE),
              config |-> configrec.d, kwargs |-> kwrec.d]
  IN Both(_is_rec(kw), _is_rec(cfg))

\* The target descriptor resolved, a callable that is not a type refused
ResolveTarget_rejecting_callable(target) ==
  IF target = None
  THEN Raise("InstantiationException", "Unable to determine target")
  ELSE IF target.t = "str" THEN _locate(target.s)
  ELSE IF target.t = "type" THEN Ok(target)
  ELSE Raise("InstantiationException", "Unsupported target type")

\* The target descriptor resolved: lines 604-614
ResolveTarget(target) ==
  IF target = None
  THEN Raise("InstantiationException", "Unable to determine target")
  ELSE IF target.t = "str" THEN _locate(target.s)
  ELSE IF target.t = "type" THEN Ok(target)
  ELSE IF target.t = "callable" THEN Ok(target)
  ELSE Raise("InstantiationException", "Unsupported target type")

\* _get_target_type with the node's target preferred to the overlay's
_get_target_type_node_first(cfg, kw) ==
  LET kwargs_target == IF Has(kw, "_target_") THEN Get(kw, "_target_") ELSE None
      config_target == IF Has(cfg, "_target_") THEN Get(cfg, "_target_") ELSE None
      target == IF config_target # None THEN config_target
                ELSE IF kwargs_target # None THEN kwargs_target
                ELSE None
  IN [out |-> ResolveTarget(target),
      config |-> Pop(cfg, "_target_"), kwargs |-> Pop(kw, "_target_")]

\* [out, config, kwargs]
_get_target_type(cfg, kw) ==
  LET kwargs_target == IF Has(kw, "_target_") THEN Get(kw, "_target_") ELSE None
      config_target == IF Has(cfg, "_target_") THEN Get(cfg, "_target_") ELSE None
      target == IF kwargs_target # None THEN kwargs_target
                ELSE IF config_target # None THEN config_target
                ELSE None
  IN [out |-> ResolveTarget(target),
      config |-> Pop(cfg, "_target_"), kwargs |-> Pop(kw, "_target_")]

\* _pop_convert_mode with "partial" read as ALL
_pop_convert_mode_partial_as_all(d) ==
  IF Has(d, "_convert_")
  THEN LET convert == Get(d, "_convert_")
           out == IF convert = None THEN Ok(ConvertMode("NONE"))
                  ELSE IF convert.t = "str"
                  THEN IF convert.s = <<"none">> THEN Ok(ConvertMode("NONE"))
                       ELSE IF convert.s = <<"partial">> THEN Ok(ConvertMode("ALL"))
                       ELSE IF convert.s = <<"all">> THEN Ok(ConvertMode("ALL"))
                       ELSE Raise("InstantiationException", "Unsupported _convert_ value")
                  ELSE IF convert.t = "ConvertMode" THEN Ok(convert)
                  ELSE Raise("InstantiationException",
                             "_convert_ must be a string or ConvertMode enum")
       IN [out |-> out, d |-> Pop(d, "_convert_")]
  ELSE [out |-> Ok(ConvertMode("NONE")), d |-> d]

\* [out, d]
_pop_convert_mode(d) ==
  IF Has(d, "_convert_")
  THEN LET convert == Get(d, "_convert_")
           out == IF convert = None THEN Ok(ConvertMode("NONE"))
                  ELSE IF convert.t = "str"
                  THEN IF convert.s = <<"none">> THEN Ok(ConvertMode("NONE"))
                       ELSE IF convert.s = <<"partial">> THEN Ok(ConvertMode("PARTIAL"))
                       ELSE IF convert.s = <<"all">> THEN Ok(ConvertMode("ALL"))
                       ELSE Raise("InstantiationException", "Unsupported _convert_ value")
                  ELSE IF convert.t = "ConvertMode" THEN Ok(convert)
                  ELSE Raise("InstantiationException",
                             "_convert_ must be a string or ConvertMode enum")
       IN [out |-> out, d |-> Pop(d, "_convert_")]
  ELSE [out |-> Ok(ConvertMode("NONE")), d |-> d]

----------------------------------------------------------------------------
(* OmegaConf.create(kwargs) and config.merge_with(overrides) *)

\* OmegaConf.create(kwargs, flags={"allow_objects": True}): same items, untyped
OmegaConf_create(kw) == Dict(Untyped, kw.items)

\* Merged object-type tag of a mapping merged with src: a typed src retags it
MergedTag(dest, src) == IF src.tag # Untyped THEN src.tag ELSE dest.tag

\* dest.merge_with(src) on mappings, src items taken in order from index i.
\* [st, d]: d is dest after the call (partially merged when it raised)
RECURSIVE map_merge(_, _, _)
map_merge(dest, src, i) ==
  IF i > Len(src.items) THEN [st |-> "ok", d |-> [dest EXCEPT !.tag = MergedTag(dest, src)]]
  ELSE
    LET key == src.items[i].k
        src_value == src.items[i].v
    IN IF Has(dest, key)
       THEN LET dest_node == Get(dest, key) IN
            IF OmegaConf_is_config(dest_node) /\ OmegaConf_is_config(src_value)
            THEN IF dest_node.t = "dict" /\ src_value.t = "dict"
                 THEN LET sub == map_merge(dest_node, src_value, 1) IN
                      IF sub.st = "raise"
                      THEN [st |-> "raise", d |-> Set(dest, key, sub.d)]
                      ELSE map_merge(Set(dest, key, sub.d), src, i + 1)
                 ELSE IF dest_node.t = "list" /\ src_value.t = "list"
                 THEN map_merge(Set(dest, key, src_value), src, i + 1)
                 ELSE [st |-> "raise", d |-> dest]
            ELSE map_merge(Set(dest, key, src_value), src, i + 1)
       ELSE map_merge(Set(dest, key, src_value), src, i + 1)

\* merge_with that replaces a mapping value by the overlay's instead of merging
RECURSIVE map_replace(_, _, _)
map_replace(dest, src, i) ==
  IF i > Len(src.items) THEN [st |-> "ok", d |-> dest]
  ELSE map_replace(Set(dest, src.items[i].k, src.items[i].v), src, i + 1)

merge_with_replacing(dest, src) == map_replace(dest, src, 1)

merge_with(dest, src) == map_merge(dest, src, 1)

----------------------------------------------------------------------------
(* instantiate (hydra.utils) and the _get_kwargs walk *)

\* Outcome of a step of the walk: the value produced (val), the input node as
\* the step left it (node), and the instantiate() invocations so far (log).
\* A failed step also names the path of the node whose processing raised (at).
R(val, node, log) ==
  [st |-> "ok", val |-> val, node |-> node, log |-> log,
   exc |-> "", msg |-> "", at |-> <<>>]
RRaise(exc, msg, node, log, at) ==
  [st |-> "raise", val |-> None, node |-> node, log |-> log,
   exc |-> exc, msg |-> msg, at |-> at]

\* instantiate(v): works on a copy of v; resolves the target, reads the convert
\* mode and returns the constructed object. An invocation is logged with the
\* path of v in the tree (keys and indices from the root).
instantiate(v, path, log) ==
  LET Built(t, c) ==
        IF t.out.st = "raise"
        THEN RRaise(t.out.exc, t.out.msg, v, Append(log, path), path)
        ELSE IF c.out.st = "raise"
        THEN RRaise(c.out.exc, c.out.msg, v, Append(log, path), path)
        ELSE R(Obj(t.out.val.sym), v, Append(log, path))
  IN Built(_get_target_type(v, Dict(Untyped, <<>>)), _pop_convert_mode(Pop(v, "_target_")))

\* Lines 664-666: the recursion flag is read and removed, then the overlay is
\* merged into config. [st, recursive, d]: d is config as these lines left it
Prepare(cfg, kw) ==
  LET Merge(rec, m) ==
        IF m.st = "raise"
        THEN [st |-> "raise", recursive |-> rec.out.val, d |-> m.d,
              exc |-> "TypeError", msg |-> "Cannot merge DictConfig with ListConfig"]
        ELSE [st |-> "ok", recursive |-> rec.out.val, d |-> m.d,
              exc |-> "", msg |-> ""]
      Flag(rec) ==
        IF rec.out.st = "raise"
        THEN [st |-> "raise", recursive |-> TRUE, d |-> rec.config,
              exc |-> rec.out.exc, msg |-> rec.out.msg]
        ELSE Merge(rec, merge_with(rec.config, OmegaConf_create(rec.kwargs)))
  IN Flag(_is_recursive(cfg, kw))

\* items_ex yielding the items last to first
items_ex_reversed(d) == [i \in 1..Len(d.items) |-> d.items[Len(d.items) + 1 - i]]

\* config.items_ex(resolve=False): the items in declared order
items_ex(d) == d.items

\* FinalTag with the tag never restored
FinalTag_never_restored(root, cfg) == Untyped

\* Object-type tag of the mapping _get_kwargs returns (lines 709-713)
FinalTag(root, cfg) == IF root THEN Untyped ELSE cfg.tag

Indexed(vals) == [i \in 1..Len(vals) |-> Item(i, vals[i])]
Values(its) == [i \in 1..Len(its) |-> its[i].v]

\* The accumulator of a loop that has done nothing yet
Start(log) == [vals |-> <<>>, nodes |-> <<>>, log |-> log]

RECURSIVE _get_kwargs(_, _, _, _, _)
RECURSIVE Loop(_, _, _, _, _)
RECURSIVE Elem(_, _, _, _)

\* Loop with a failed step skipped and the loop carried on
Loop_carrying_on(kind, its, i, path, acc) ==
  LET Step(r) ==
        IF r.st = "raise"
        THEN Loop(kind, its, i + 1, path,
                  [vals |-> acc.vals,
                   nodes |-> Append(acc.nodes, Item(its[i].k, r.node)),
                   log |-> r.log])
        ELSE Loop(kind, its, i + 1, path,
                  [vals |-> Append(acc.vals, Item(its[i].k, r.val)),
                   nodes |-> Append(acc.nodes, Item(its[i].k, r.node)),
                   log |-> r.log])
  IN IF i > Len(its) THEN R(acc.vals, acc.nodes, acc.log)
     ELSE Step(Elem(kind, its[i].v, Append(path, its[i].k), acc.log))

\* One pass over the steps of a loop of the walk, from step i on.
\*   kind  which loop: "field" (673-701), "dictvalue" (680-686),
\*         "listelem" (691-698), "listcomp" (658-660)
\*   its   the items iterated, as [k, v] (k is the index for a sequence)
\*   acc   [vals, nodes, log]: results and input nodes of the steps done
\* A step that raises ends the loop: the exception propagates.
Loop(kind, its, i, path, acc) ==
  LET Step(r) ==
        IF r.st = "raise"
        THEN RRaise(r.exc, r.msg,
                    acc.nodes \o <<Item(its[i].k, r.node)>>
                              \o SubSeq(its, i + 1, Len(its)),
                    r.log, r.at)
        ELSE Loop(kind, its, i + 1, path,
                  [vals |-> Append(acc.vals, Item(its[i].k, r.val)),
                   nodes |-> Append(acc.nodes, Item(its[i].k, r.node)),
                   log |-> r.log])
  IN IF i > Len(its) THEN R(acc.vals, acc.nodes, acc.log)
     ELSE Step(Elem(kind, its[i].v, Append(path, its[i].k), acc.log))

\* What one step of a loop does with the value v found at path
Elem(kind, v, path, log) ==
  LET InnerDict(l) ==        \* lines 679-688
        IF l.st = "raise"
        THEN RRaise(l.exc, l.msg, [v EXCEPT !.items = l.node], l.log, l.at)
        ELSE R(Dict(v.tag, l.val), [v EXCEPT !.items = l.node], l.log)
      InnerList(l) ==        \* lines 690-699
        IF l.st = "raise"
        THEN RRaise(l.exc, l.msg, List(Values(l.node)), l.log, l.at)
        ELSE R(List(Values(l.val)), List(Values(l.node)), l.log)
      Tagged(r) ==           \* line 696
        IF r.st = "ok" /\ r.val.t = "dict"
        THEN [r EXCEPT !.val.tag = r.node.tag]
        ELSE r
  IN
  IF kind = "field"
  THEN IF OmegaConf_is_none(v) THEN R(v, v, log)
       ELSE IF _is_target(v) THEN instantiate(v, path, log)
       ELSE IF OmegaConf_is_dict(v)
       THEN InnerDict(Loop("dictvalue", items_ex(v), 1, path, Start(log)))
       ELSE IF OmegaConf_is_list(v)
       THEN InnerList(Loop("listelem", Indexed(v.items), 1, path, Start(log)))
       ELSE R(v, v, log)
  ELSE IF kind = "dictvalue"
  THEN IF _is_target(v) THEN instantiate(v, path, log)
       ELSE IF OmegaConf_is_config(v)
       THEN _get_kwargs(v, FALSE, Dict(Untyped, <<>>), path, log)
       ELSE R(v, v, log)
  ELSE IF kind = "listelem"
  THEN IF _is_target(v) THEN instantiate(v, path, log)
       ELSE IF OmegaConf_is_config(v)
       THEN Tagged(_get_kwargs(v, FALSE, Dict(Untyped, <<>>), path, log))
       ELSE R(v, v, log)
  ELSE \* "listcomp"
       IF OmegaConf_is_config(v)
       THEN _get_kwargs(v, FALSE, Dict(Untyped, <<>>), path, log)
       ELSE R(v, v, log)

\* Fields with the recursion flag ignored: the walk is always made
Fields_always_walk(recursive, cfg, path, log) ==
  Loop("field", items_ex(cfg), 1, path, Start(log))

\* Lines 672-704: the fields of final_kwargs from the merged config
Fields(recursive, cfg, path, log) ==
  IF recursive
  THEN Loop("field", items_ex(cfg), 1, path, Start(log))
  ELSE R(items_ex(cfg), cfg.items, log)

\* _get_kwargs(config, root, **kwargs), called on the node found at path.
\* kw is the dict Python builds for **kwargs, so the caller's overlay object
\* is never touched; node is config as the call left it.
_get_kwargs(cfg, root, kw, path, log) ==
  LET Comp(l) ==             \* lines 656-660
        IF l.st = "raise"
        THEN RRaise(l.exc, l.msg, List(Values(l.node)), l.log, l.at)
        ELSE R(List(Values(l.val)), List(Values(l.node)), l.log)
      Final(m, f) ==         \* lines 706-714
        IF f.st = "raise"
        THEN RRaise(f.exc, f.msg, [m.d EXCEPT !.items = f.node], f.log, f.at)
        ELSE R(Dict(FinalTag(root, m.d), f.val),
               [m.d EXCEPT !.items = f.node], f.log)
      Walk(m) ==             \* lines 664-704
        IF m.st = "raise" THEN RRaise(m.exc, m.msg, m.d, log, path)
        ELSE Final(m, Fields(m.recursive, m.d, path, log))
  IN IF OmegaConf_is_list(cfg)
     THEN Comp(Loop("listcomp", Indexed(cfg.items), 1, path, Start(log)))
     ELSE Walk(Prepare(cfg, kw))

----------------------------------------------------------------------------
(* Inputs: the nodes and overlays the engine is called on *)

Foo == <<"pkgA", ".", "Foo">>
Bar == <<"pkgA", ".", "Bar">>
Other == <<"pkgA", ".", "Other">>
Missing == <<"pkgA", ".", "Missing">>

Tags == {Untyped, "User"}

\* an optional item: no item when v is Absent
Absent == [t |-> "absent"]
Opt(k, v) == IF v = Absent THEN <<>> ELSE <<Item(k, v)>>

\* a nested node that declares a target: one that resolves, one that does not
TBar == Dict(Untyped, <<Item("_target_", Str(Bar)), Item("x", IntV(1))>>)
TBad == Dict(Untyped, <<Item("_target_", Str(Missing)), Item("x", IntV(1))>>)

Plain(tag) == Dict(tag, <<Item("p", IntV(1))>>)

\* a nested node without a target that sets its own recursion flag
Flagged == Dict("User", <<Item("_recursive_", Bool(FALSE)), Item("p", TBar)>>)

Leaves == {IntV(1), None, TBar, TBad}

Maps1 ==
  {Dict(tag, <<Item("p", v)>>) : tag \in Tags, v \in Leaves}
  \cup {Dict("User", <<Item("p", TBar), Item("q", TBar)>>),
        Dict("User", <<Item("_recursive_", Bool(FALSE)), Item("p", TBar)>>),
        Dict("User", <<Item("_recursive_", Str(<<"yes">>)), Item("p", TBar)>>)}

Lists1 ==
  {List(<<v>>) : v \in Leaves \cup {Plain("User")}}
  \cup {List(<<v, w>>) : v, w \in {TBar, TBad, Plain("User"), Plain(Untyped)}}

Inner ==
  {Dict("User", <<Item("p", v)>>) : v \in {IntV(1), TBar, TBad}}
  \cup {Dict("User", <<Item("_recursive_", Bool(FALSE)), Item("p", TBar)>>),
        Dict("User", <<Item("_recursive_", Str(<<"yes">>)), Item("p", TBar)>>),
        List(<<TBar>>), List(<<TBad, TBar>>), List(<<Plain("User"), Plain(Untyped)>>),
        List(<<IntV(1)>>)}

Nested ==
  {Dict(tag, <<Item("p", c)>>) : tag \in Tags, c \in Inner}
  \cup {List(<<c>>) : c \in Inner}
  \cup {List(<<c, TBar>>) : c \in Inner}

TreeValues == Leaves \cup Maps1 \cup Lists1 \cup Nested

\* nodes whose fields are trees
TreeConfigs ==
  {Dict(Untyped, Opt("_recursive_", r) \o <<Item("a", va), Item("b", vb)>>) :
     r \in {Absent, Bool(FALSE)}, va \in TreeValues,
     vb \in {IntV(2), TBar, TBad, Dict("User", <<Item("p", Flagged)>>)}}

TreeOverlays ==
  {Dict(Untyped, its) : its \in
     { <<>>,
       <<Item("b", IntV(9))>>,
       <<Item("c", TBar)>>,
       <<Item("c", IntV(3)), Item("b", IntV(9))>>,
       <<Item("a", Dict(Untyped, <<Item("q", IntV(9))>>))>>,
       <<Item("a", Dict(Untyped, <<Item("p", IntV(9))>>))>>,
       <<Item("a", Dict(Untyped, <<Item("p", Dict(Untyped, <<Item("q", IntV(9))>>))>>))>>,
       <<Item("a", List(<<IntV(9)>>))>>,
       <<Item("_recursive_", Bool(FALSE))>> }}

\* nodes and overlays that differ in their reserved keys
TargetValues ==
  {Absent, None, Str(Foo), Str(Missing), IntV(3), Type(<<"pkgA", "Bar">>)}
RecursiveValues == {Absent, Bool(TRUE), Bool(FALSE), Str(<<"yes">>)}
ConvertValues ==
  {Absent, None, Str(<<"none">>), Str(<<"partial">>), Str(<<"all">>),
   Str(<<"fast">>), Str(<<"ALL">>), ConvertMode("PARTIAL"), ConvertMode("ALL"), IntV(1)}

DirectiveConfigs ==
  {Dict(Untyped, Opt("_target_", t) \o Opt("_recursive_", r) \o Opt("_convert_", c)
                 \o <<Item("x", IntV(1)), Item("y", IntV(2))>>) :
     t \in TargetValues, r \in RecursiveValues, c \in {Absent}}
  \cup
  {Dict(Untyped, Opt("_target_", t) \o Opt("_convert_", c) \o <<Item("x", IntV(1))>>) :
     t \in {Str(Foo)}, c \in ConvertValues}

DirectiveOverlays ==
  {Dict(Untyped, Opt("_target_", t) \o Opt("_recursive_", r) \o Opt("x", x)) :
     t \in {Absent, None, Str(Other), Callable(<<"pkgA", "fn">>), IntV(3)},
     r \in {Absent, Bool(TRUE), Bool(FALSE), IntV(1)},
     x \in {Absent, IntV(9)}}

----------------------------------------------------------------------------
(* The calls a client makes on one node and one overlay *)

Init ==
  /\ \/ config \in TreeConfigs /\ kwargs \in TreeOverlays
     \/ config \in DirectiveConfigs /\ kwargs \in DirectiveOverlays
  /\ config0 = config
  /\ kwargs0 = kwargs
  /\ op = ""
  /\ pre = [config |-> config, kwargs |-> kwargs]
  /\ ret = Ok(None)
  /\ built = <<>>
  /\ merged = [st |-> "none"]
  /\ ncalls = 0

Called(name) ==
  /\ ncalls < MaxCalls
  /\ ncalls' = ncalls + 1
  /\ op' = name
  /\ pre' = [config |-> config, kwargs |-> kwargs]
  /\ UNCHANGED <<config0, kwargs0>>

Call_is_recursive ==
  /\ Called("_is_recursive")
  /\ LET Done(r) ==
           /\ config' = r.config
           /\ kwargs' = r.kwargs
           /\ ret' = r.out
     IN Done(_is_recursive(config, kwargs))
  /\ built' = <<>>
  /\ merged' = [st |-> "none"]

Call_get_target_type ==
  /\ Called("_get_target_type")
  /\ LET Done(r) ==
           /\ config' = r.config
           /\ kwargs' = r.kwargs
           /\ ret' = r.out
     IN Done(_get_target_type(config, kwargs))
  /\ built' = <<>>
  /\ merged' = [st |-> "none"]

Call_pop_convert_mode ==
  /\ Called("_pop_convert_mode")
  /\ LET Done(r) ==
           /\ config' = r.d
           /\ ret' = r.out
     IN Done(_pop_convert_mode(config))
  /\ built' = <<>>
  /\ merged' = [st |-> "none"]
  /\ UNCHANGED kwargs

Call_get_kwargs ==
  /\ Called("_get_kwargs")
  /\ LET Done(r, m) ==
           /\ config' = r.node
           /\ ret' = IF r.st = "raise"
                     THEN [st |-> "raise", exc |-> r.exc, msg |-> r.msg, at |-> r.at]
                     ELSE Ok(r.val)
           /\ built' = r.log
           /\ merged' = [st |-> m.st, recursive |-> m.recursive, d |-> m.d]
     IN Done(_get_kwargs(config, TRUE, kwargs, <<>>, <<>>), Prepare(config, kwargs))
  /\ UNCHANGED kwargs

Next ==
  \/ Call_is_recursive
  \/ Call_get_target_type
  \/ Call_pop_convert_mode
  \/ Call_get_kwargs

Spec == Init /\ [][Next]_vars

----------------------------------------------------------------------------
(* Properties *)

\* v is, or holds at some depth, a mapping that carries a _target_ key
RECURSIVE ContainsTarget(_)
ContainsTarget(v) ==
  IF v.t = "dict"
  THEN Has(v, "_target_") \/ \E i \in 1..Len(v.items) : ContainsTarget(v.items[i].v)
  ELSE IF v.t = "list"
  THEN \E i \in 1..Len(v.items) : ContainsTarget(v.items[i])
  ELSE FALSE

\* The reserved value found under key k of d, Absent when d has no such key
Entry(d, k) == IF Has(d, k) THEN Get(d, k) ELSE Absent

\* C1: after _get_kwargs has returned for a root whose recursion flag resolved
\* to true, no field of the result holds, at any depth, a mapping that still
\* carries a _target_ key (every nested target node was replaced by an object).
C1_NoTargetLeft ==
  (op = "_get_kwargs" /\ ret.st = "ok" /\ merged.recursive)
    => \A i \in 1..Len(ret.val.items) : ~ContainsTarget(ret.val.items[i].v)

\* C2: when the recursion flag resolved for the root is false, _get_kwargs
\* never invokes instantiate and returns the fields of the merged node
\* verbatim, a nested mapping with its _target_ key included.
C2_ShallowCopiesVerbatim ==
  (op = "_get_kwargs" /\ merged.st = "ok" /\ ~merged.recursive)
    => /\ built = <<>>
       /\ ret.st = "ok"
       /\ ret.val.items = merged.d.items

C2_Witness ==
  /\ op = "_get_kwargs" /\ merged.st = "ok" /\ ~merged.recursive
  /\ ret.st = "ok"
  /\ Has(ret.val, "b") /\ Get(ret.val, "b") = TBar
  /\ Has(Get(ret.val, "b"), "_target_")

\* C3: with a boolean or absent _recursive_ in overlay and node, _is_recursive
\* returns the overlay's value if the overlay has one, else the node's value
\* if the node has one, else true.
C3_RecursivePrecedence ==
  LET o == Entry(pre.kwargs, "_recursive_")
      n == Entry(pre.config, "_recursive_")
  IN (op = "_is_recursive" /\ o.t \in {"bool", "absent"} /\ n.t \in {"bool", "absent"})
       => ret = Ok(IF o.t = "bool" THEN o.b ELSE IF n.t = "bool" THEN n.b ELSE TRUE)

C3_Witness ==
  /\ op = "_is_recursive"
  /\ Entry(pre.kwargs, "_recursive_") = Bool(FALSE)
  /\ Entry(pre.config, "_recursive_") = Bool(TRUE)
  /\ ret = Ok(FALSE)

\* What resolving the target descriptor t alone gives: the symbol a string
\* locates, a type or callable itself, the missing-target error for no
\* descriptor, the unsupported-type error for anything else
Resolved(t) ==
  IF t.t \in {"absent", "none"}
  THEN Raise("InstantiationException", "Unable to determine target")
  ELSE IF t.t = "str" THEN _locate(t.s)
  ELSE IF t.t \in {"type", "callable"} THEN Ok(t)
  ELSE Raise("InstantiationException", "Unsupported target type")

\* C4 as stated: whenever the overlay has a _target_ entry, _get_target_type
\* gives what the overlay's entry resolves to, whatever the node declares; the
\* node's entry decides only when the overlay has none.
C4_OverlayEntryWins ==
  (op = "_get_target_type")
    => ret = IF Has(pre.kwargs, "_target_")
             THEN Resolved(Get(pre.kwargs, "_target_"))
             ELSE Resolved(Entry(pre.config, "_target_"))

\* C4 as amended: whenever the overlay has a _target_ entry that is not null,
\* _get_target_type gives what that entry resolves to, whatever the node
\* declares; the node's entry decides when the overlay has no _target_
\* entry or a null one.
C4_NonNullOverlayWins ==
  (op = "_get_target_type")
    => ret = IF Entry(pre.kwargs, "_target_").t \notin {"absent", "none"}
             THEN Resolved(Get(pre.kwargs, "_target_"))
             ELSE Resolved(Entry(pre.config, "_target_"))

C4_Witness ==
  /\ op = "_get_target_type"
  /\ Entry(pre.kwargs, "_target_") = Str(Other)
  /\ Entry(pre.config, "_target_") = Str(Foo)
  /\ ret = Ok(Type(<<"pkgA", "Other">>))

\* The outcome the convert directive c stands for, a null one aside
ConvertOutcome(c) ==
  IF c.t = "absent" THEN Ok(ConvertMode("NONE"))
  ELSE IF c = Str(<<"none">>) THEN Ok(ConvertMode("NONE"))
  ELSE IF c = Str(<<"partial">>) THEN Ok(ConvertMode("PARTIAL"))
  ELSE IF c = Str(<<"all">>) THEN Ok(ConvertMode("ALL"))
  ELSE IF c.t = "str" THEN Raise("InstantiationException", "Unsupported _convert_ value")
  ELSE IF c.t = "ConvertMode" THEN Ok(c)
  ELSE Raise("InstantiationException", "_convert_ must be a string or ConvertMode enum")

\* C5 as stated: _pop_convert_mode maps "none", "partial", "all" to NONE,
\* PARTIAL, ALL, returns a ConvertMode value unchanged, returns NONE when
\* _convert_ is absent, fails with the value error for any other string and
\* with the type error for a present value of any other type.
C5_ConvertParsing ==
  (op = "_pop_convert_mode") => ret = ConvertOutcome(Entry(pre.config, "_convert_"))

\* C5 as amended: the same, except that a present null _convert_ gives NONE
\* like an absent one; the type error is for a present non-null value that is
\* neither a string nor a ConvertMode value.
C5_ConvertParsingNullIsNone ==
  (op = "_pop_convert_mode")
    => ret = IF Entry(pre.config, "_convert_") = None
             THEN Ok(ConvertMode("NONE"))
             ELSE ConvertOutcome(Entry(pre.config, "_convert_"))

C5_Witness ==
  /\ op = "_pop_convert_mode"
  /\ Entry(pre.config, "_convert_") = Str(<<"partial">>)
  /\ ret = Ok(ConvertMode("PARTIAL"))
  /\ ~Has(config, "_convert_")

\* The keys of o that n lacks, in o's order
NewKeys(n, o) == SelectSeq(Keys(o), LAMBDA k : ~Has(n, k))

\* m has n's keys in n's order, then the keys only o has
UnionInOrder(m, n, o) == Keys(m) = Keys(n) \o NewKeys(n, o)

\* m is n overlaid by o, every common key taking o's value as it is
ReplacedBy(m, n, o) ==
  /\ UnionInOrder(m, n, o)
  /\ \A i \in 1..Len(m.items) :
       m.items[i].v = IF Has(o, m.items[i].k) THEN Get(o, m.items[i].k)
                      ELSE Get(n, m.items[i].k)

\* m is n overlaid by o, a common key taking o's value unless both values are
\* mappings, which are overlaid in the same way
RECURSIVE OverlaidBy(_, _, _)
OverlaidBy(m, n, o) ==
  /\ UnionInOrder(m, n, o)
  /\ \A i \in 1..Len(m.items) :
       LET k == m.items[i].k IN
       IF Has(o, k) /\ Has(n, k) /\ Get(o, k).t = "dict" /\ Get(n, k).t = "dict"
       THEN m.items[i].v.t = "dict" /\ OverlaidBy(m.items[i].v, Get(n, k), Get(o, k))
       ELSE m.items[i].v = IF Has(o, k) THEN Get(o, k) ELSE Get(n, k)

\* C6 as stated: the node _get_kwargs has after merging the overlay (both
\* without _recursive_, which line 664 removed) has the node's keys in node
\* order followed by the overlay-only keys; each key of both has exactly the
\* overlay's value, each node-only key its own value.
C6_MergeReplaces ==
  (op = "_get_kwargs" /\ merged.st = "ok")
    => ReplacedBy(merged.d, Pop(pre.config, "_recursive_"), Pop(pre.kwargs, "_recursive_"))

\* C6 as amended: the same, except that a key whose value is a mapping in
\* both node and overlay gets the two mappings merged, key by key, by this
\* same rule (the node's nested keys are kept, not dropped).
C6_MergeOverlays ==
  (op = "_get_kwargs" /\ merged.st = "ok")
    => OverlaidBy(merged.d, Pop(pre.config, "_recursive_"), Pop(pre.kwargs, "_recursive_"))

C6_Witness ==
  /\ op = "_get_kwargs" /\ merged.st = "ok"
  /\ Entry(pre.config, "a").t = "dict"
  /\ Keys(Entry(pre.config, "a")) = <<"p">>
  /\ Entry(pre.kwargs, "a") = Dict(Untyped, <<Item("q", IntV(9))>>)
  /\ Keys(Get(merged.d, "a")) = <<"p", "q">>
  /\ Keys(merged.d) = <<"a", "b">>

\* C7: a call of _get_target_type, _is_recursive or _get_kwargs, returning or
\* raising, leaves the node object the caller passed with the keys and values
\* it had before the call.
C7_CallerNodeUntouched ==
  (op \in {"_get_target_type", "_is_recursive", "_get_kwargs"}) => config = pre.config

\* out carries the object-type tags of in: a mapping without a target has
\* become a mapping with the same tag, field by field and element by element
RECURSIVE TagsKept(_, _)
TagsKept(in, out) ==
  IF in.t = "dict" /\ ~_is_target(in)
  THEN /\ out.t = "dict"
       /\ out.tag = in.tag
       /\ \A i \in 1..Len(out.items) :
            Has(in, out.items[i].k) /\ TagsKept(Get(in, out.items[i].k), out.items[i].v)
  ELSE IF in.t = "list"
  THEN /\ out.t = "list"
       /\ Len(out.items) = Len(in.items)
       /\ \A i \in 1..Len(out.items) : TagsKept(in.items[i], out.items[i])
  ELSE TRUE

\* C8: every non-root mapping without a target in the merged node (a field, a
\* field of a nested mapping, a sequence element at any position) is a mapping
\* with the same object-type tag in the result _get_kwargs returns, in
\* recursive and in shallow mode; each sequence element keeps its own tag.
C8_TagsPropagate ==
  (op = "_get_kwargs" /\ ret.st = "ok")
    => \A i \in 1..Len(ret.val.items) :
         /\ Has(merged.d, ret.val.items[i].k)
         /\ TagsKept(Get(merged.d, ret.val.items[i].k), ret.val.items[i].v)

C8_Witness ==
  /\ op = "_get_kwargs" /\ ret.st = "ok" /\ merged.recursive
  /\ Entry(merged.d, "a") = List(<<Plain("User"), Plain(Untyped)>>)
  /\ Get(ret.val, "a").items[1].tag = "User"
  /\ Get(ret.val, "a").items[2].tag = Untyped

\* The node found by following path (keys and indices) from node
RECURSIVE NodeAt(_, _)
NodeAt(node, path) ==
  IF path = <<>> THEN node
  ELSE IF node.t = "dict" THEN NodeAt(Get(node, Head(path)), Tail(path))
  ELSE NodeAt(node.items[Head(path)], Tail(path))

KeyPos(d, k) == CHOOSE i \in 1..Len(d.items) : d.items[i].k = k

\* Path p comes before path q in document order under node: at the first
\* step where they part, p takes the earlier key or the lower index
RECURSIVE Before(_, _, _)
Before(node, p, q) ==
  IF p = <<>> \/ q = <<>> THEN FALSE
  ELSE IF Head(p) = Head(q)
  THEN Before(NodeAt(node, <<Head(p)>>), Tail(p), Tail(q))
  ELSE IF node.t = "dict" THEN KeyPos(node, Head(p)) < KeyPos(node, Head(q))
  ELSE Head(p) < Head(q)

\* C9: the instantiate invocations of one _get_kwargs walk are made on target
\* nodes of the merged tree and in document order: of two invocations the
\* earlier one is for the node under the earlier key of a common mapping or
\* the lower index of a common sequence.
C9_ConstructionOrder ==
  (op = "_get_kwargs")
    => /\ \A i \in 1..Len(built) : _is_target(NodeAt(merged.d, built[i]))
       /\ \A i, j \in 1..Len(built) :
            i < j => Before(merged.d, built[i], built[j])

C9_Witness ==
  /\ op = "_get_kwargs" /\ ret.st = "ok"
  /\ Entry(merged.d, "a") = Dict("User", <<Item("p", TBar), Item("q", TBar)>>)
  /\ Entry(merged.d, "b") = TBar
  /\ Entry(merged.d, "c") = TBar
  /\ built = << <<"a", "p">>, <<"a", "q">>, <<"b">>, <<"c">> >>

\* instantiate succeeds on the target node v
Constructs(v) == instantiate(v, <<>>, <<>>).st = "ok"

\* C10: a failure inside a _get_kwargs walk ends the call at once. A call that
\* returns has made no failing instantiate call. A call that raises returns no
\* tree; every instantiate call it made is either the failing one, made last,
\* or a successful one on a node before the point of failure; and no field of
\* the node after the failing field has been touched.
C10_FailFast ==
  (op = "_get_kwargs")
    => /\ ret.st = "ok" =>
            \A i \in 1..Len(built) : Constructs(NodeAt(merged.d, built[i]))
       /\ ret.st = "raise" =>
            /\ "val" \notin DOMAIN ret
            /\ \A i \in 1..Len(built) :
                 \/ i = Len(built) /\ built[i] = ret.at
                 \/ /\ Constructs(NodeAt(merged.d, built[i]))
                    /\ Before(merged.d, built[i], ret.at)
            /\ ret.at # <<>> =>
                 \A i \in 1..Len(config.items) :
                   i > KeyPos(merged.d, Head(ret.at))
                     => config.items[i] = merged.d.items[i]

C10_Witness ==
  /\ op = "_get_kwargs" /\ ret.st = "raise"
  /\ ret.at = <<"a", 1>>
  /\ Entry(merged.d, "a") = List(<<TBad, TBar>>)
  /\ Entry(merged.d, "b") = Dict("User", <<Item("p", Flagged)>>)
  /\ built = << <<"a", 1>> >>
  /\ Get(config, "b") = Get(pre.config, "b")

----------------------------------------------------------------------------
(* Extraction run again on the same node and overlay *)

\* Number of extraction passes run in a row on one node and one overlay
MaxPasses == 2

\* One step of a pass: step 0 is _get_target_type, step 1 is _is_recursive
Extracting(name, step) ==
  /\ ncalls < 2 * MaxPasses
  /\ ncalls % 2 = step
  /\ ncalls' = ncalls + 1
  /\ op' = name
  /\ pre' = [config |-> config, kwargs |-> kwargs]
  /\ built' = <<>>
  /\ merged' = [st |-> "none"]
  /\ UNCHANGED <<config0, kwargs0>>

Extract_get_target_type ==
  /\ Extracting("_get_target_type", 0)
  /\ LET Done(r) ==
           /\ config' = r.config
           /\ kwargs' = r.kwargs
           /\ ret' = r.out
     IN Done(_get_target_type(config, kwargs))

Extract_is_recursive ==
  /\ Extracting("_is_recursive", 1)
  /\ LET Done(r) ==
           /\ config' = r.config
           /\ kwargs' = r.kwargs
           /\ ret' = r.out
     IN Done(_is_recursive(config, kwargs))

NextExtract ==
  \/ Extract_get_target_type
  \/ Extract_is_recursive

SpecExtract == Init /\ [][NextExtract]_vars

\* C11: extraction is destructive on both sources. Once _get_target_type and
\* _is_recursive have both run on a node and an overlay, neither of the two
\* has a _target_ or a _recursive_ entry; run again on them, _get_target_type
\* fails with the missing-target error and _is_recursive returns the default
\* true.
C11_ExtractionDestructive ==
  /\ (ncalls >= 2) =>
        /\ ~Has(config, "_target_") /\ ~Has(config, "_recursive_")
        /\ ~Has(kwargs, "_target_") /\ ~Has(kwargs, "_recursive_")
  /\ (ncalls > 2 /\ op = "_get_target_type") =>
        ret = Raise("InstantiationException", "Unable to determine target")
  /\ (ncalls > 2 /\ op = "_is_recursive") => ret = Ok(TRUE)

----------------------------------------------------------------------------
(* Errors of _get_target_type *)

MissingTarget == Raise("InstantiationException", "Unable to determine target")

UnsupportedTarget == Raise("InstantiationException", "Unsupported target type")

\* C12 as stated: _get_target_type fails with the missing-target error exactly
\* when neither the overlay nor the node has a _target_ entry; with the
\* selected entry the overlay's when it has one and the node's otherwise, it
\* fails with the unsupported-type error whenever that entry is present and
\* is not a string, a type or a callable (null included), returns a type or a
\* callable as is, and gives a string to _locate.
C12_TargetErrorsByPresence ==
  (op = "_get_target_type") =>
    LET kw == Entry(pre.kwargs, "_target_")
        cf == Entry(pre.config, "_target_")
        sel == IF kw.t # "absent" THEN kw ELSE cf
    IN /\ (ret = MissingTarget) <=> (kw.t = "absent" /\ cf.t = "absent")
       /\ (sel.t \notin {"absent", "str", "type", "callable"})
             => ret = UnsupportedTarget
       /\ (sel.t \in {"type", "callable"}) => ret = Ok(sel)
       /\ (sel.t = "str") => ret = _locate(sel.s)

\* C12 as amended: a null _target_ value counts as no entry. _get_target_type
\* fails with the missing-target error exactly when neither the overlay nor
\* the node has a _target_ entry that is not null; with the selected entry
\* the overlay's when it is not null and the node's otherwise, it fails with
\* the unsupported-type error whenever that entry is not null and is not a
\* string, a type or a callable, returns a type or a callable as is, and
\* gives a string to _locate.
C12_TargetErrorsByNonNull ==
  (op = "_get_target_type") =>
    LET kw == Entry(pre.kwargs, "_target_")
        cf == Entry(pre.config, "_target_")
        sel == IF kw.t \notin {"absent", "none"} THEN kw ELSE cf
    IN /\ (ret = MissingTarget)
             <=> (kw.t \in {"absent", "none"} /\ cf.t \in {"absent", "none"})
       /\ (sel.t \notin {"absent", "none", "str", "type", "callable"})
             => ret = UnsupportedTarget
       /\ (sel.t \in {"type", "callable"}) => ret = Ok(sel)
       /\ (sel.t = "str") => ret = _locate(sel.s)

\* _get_target_type has refused an overlay's integer target although the node
\* declares a resolvable one
C12_Witness ==
  /\ op = "_get_target_type"
  /\ Entry(pre.kwargs, "_target_") = IntV(3)
  /\ Entry(pre.config, "_target_") = Str(Foo)
  /\ ret = UnsupportedTarget

----------------------------------------------------------------------------
(* _locate on every short path *)

\* Longest path, counted in name and separator tokens
MaxPathLen == 5

Names == {"pkgA", "sub", "Baz", "Foo", "CONST", "fn", "zzz"}

\* Strings as token sequences: two names in a row would be one longer name
Paths ==
  UNION { { p \in [1..n -> Names \cup {"."}] :
              \A i \in 1..(n - 1) : p[i] = "." \/ p[i + 1] = "." } :
          n \in 0..MaxPathLen }

InitLocate ==
  /\ config = Dict(Untyped, <<>>)
  /\ kwargs = Dict(Untyped, <<>>)
  /\ config0 = config
  /\ kwargs0 = kwargs
  /\ op = ""
  /\ pre \in {[config |-> config, kwargs |-> kwargs, path |-> p] : p \in Paths}
  /\ ret = Ok(None)
  /\ built = <<>>
  /\ merged = [st |-> "none"]
  /\ ncalls = 0

Call_locate ==
  /\ ncalls < MaxCalls
  /\ ncalls' = ncalls + 1
  /\ op' = "_locate"
  /\ LET Done(r) == ret' = r
     IN Done(_locate(pre.path))
  /\ UNCHANGED <<config, kwargs, config0, kwargs0, pre, built, merged>>

NextLocate == Call_locate

SpecLocate == InitLocate /\ [][NextLocate]_vars

\* The errors of the resolver that count as resolution errors
ResolutionErrors == {"ImportError", "ValueError"}

ResolutionFailure(r) == r.st = "raise" /\ r.exc \in ResolutionErrors

\* C13: for every path, _locate either returns a type or a callable or fails
\* with a resolution error, and no failure of another kind escapes. It fails
\* at once for the empty path, and fails with a resolution error for every
\* non-empty path none of whose prefixes can be imported, paths made only of
\* separators and single-segment paths included.
C13_LocateTotal ==
  (op = "_locate") =>
    LET parts == Parts(pre.path)
    IN /\ \/ ret.st = "ok" /\ ret.val.t \in {"type", "callable"}
          \/ ResolutionFailure(ret)
       /\ (pre.path = <<>>) => ret = Raise("ImportError", "Empty path")
       /\ (pre.path # <<>>
             /\ \A n \in 1..Len(parts) : ~Importable(SubSeq(parts, 1, n)))
            => ResolutionFailure(ret)
       /\ (Len(parts) = 1) => ResolutionFailure(ret)

====
